---- MODULE Spec2Model ----
(***************************************************************************)
(* A model of KDEpy's FFTKDE (src/KDEpy/FFTKDE.py): the fitted instance,   *)
(* fit, and evaluate as the sequence of statements of lines 128-175.       *)
(*                                                                         *)
(* Numbers.  Grid coordinates, spacings and kernel extents are integers in *)
(* a common unit, so floor, min and < are exact.  A bandwidth is an        *)
(* extended number: a finite integer, +inf or NaN (the values a Python     *)
(* float can hold that the sign test of line 133 tells apart), a callable  *)
(* rule, or some other object.                                             *)
(***************************************************************************)
EXTENDS Integers, Sequences, FiniteSets, TLC

VARIABLES inst, frame, shared, op, rule_calls, rule_rets, rule_first, rule_data

vars == <<inst, frame, shared, op, rule_calls, rule_rets, rule_first, rule_data>>

(***************************************************************************)
(* Bounds of the model.                                                    *)
(***************************************************************************)
MaxM == 3
MaxBw == 2
MaxRuleCalls == 2

Insts == {1, 2}
Threads == {1, 2}
Spacings == {1, 2, 3}
Spacings2 == {<<1, 1>>, <<2, 1>>, <<1, 3>>}

(***************************************************************************)
(* Extended numbers.                                                       *)
(***************************************************************************)
Fin(n) == [k |-> "fin", v |-> n]
Inf == [k |-> "inf", v |-> 0]
NaN == [k |-> "nan", v |-> 0]
Rule == [k |-> "rule", v |-> 0]
Other == [k |-> "other", v |-> 0]
Unset == [k |-> "unset", v |-> 0]
\* The outcome of a call that raises instead of returning a number
Raises == [k |-> "raises", v |-> 0]

Numbers == {Fin(n) : n \in (-1)..MaxBw} \cup {Inf, NaN}
\* What an invocation of a bandwidth rule can end in
RuleOutcomes == Numbers \cup {Raises}
BwSpecs == Numbers \cup {Rule, Other}

\* callable(self.bw)
IsCallable(b) == b.k = "rule"

\* isinstance(self.bw, numbers.Number) and self.bw > 0: NaN > 0 is False,
\* inf > 0 is True.
IsPositiveNumber(b) == (b.k = "fin" /\ b.v > 0) \/ b.k = "inf"

\* self.kernel.support * self.bw
MulE(s, b) ==
  CASE b.k = "fin" -> Fin(s * b.v)
    [] b.k = "inf" -> IF s > 0 THEN Inf ELSE NaN
    [] OTHER -> NaN

\* np.floor(real_bw / dx), dx a positive spacing
FloorDivE(x, dx) ==
  CASE x.k = "fin" -> Fin(x.v \div dx)
    [] x.k = "inf" -> Inf
    [] OTHER -> NaN

\* np.minimum(x, n): NaN propagates
MinimumE(x, n) ==
  CASE x.k = "fin" -> Fin(IF x.v < n THEN x.v ELSE n)
    [] x.k = "inf" -> Fin(n)
    [] OTHER -> NaN

\* a < b on floats: every comparison with NaN is False
LessE(a, b) ==
  CASE a.k = "nan" \/ b.k = "nan" -> FALSE
    [] a.k = "fin" /\ b.k = "fin" -> a.v < b.v
    [] a.k = "fin" /\ b.k = "inf" -> TRUE
    [] OTHER -> FALSE

(***************************************************************************)
(* Arrays: a shape and the values in C order (last axis fastest), indexed  *)
(* by 0-based index tuples as numpy does.                                  *)
(***************************************************************************)
RECURSIVE Prod(_)
Prod(s) == IF Len(s) = 0 THEN 1 ELSE Head(s) * Prod(Tail(s))

\* C-order position of an index tuple in an array of the given shape
RECURSIVE Ravel(_, _)
Ravel(idx, shape) ==
  IF Len(shape) = 0 THEN 0
  ELSE Head(idx) * Prod(Tail(shape)) + Ravel(Tail(idx), Tail(shape))

RECURSIVE Unravel(_, _)
Unravel(r, shape) ==
  IF Len(shape) = 0 THEN << >>
  ELSE LET p == Prod(Tail(shape))
       IN <<r \div p>> \o Unravel(r % p, Tail(shape))

InRange(idx, shape) == \A k \in 1..Len(shape) : 0 <= idx[k] /\ idx[k] < shape[k]

At(a, idx) == a.flat[Ravel(idx, a.shape) + 1]

EmptyArray == [shape |-> << >>, flat |-> << >>]

\* a.reshape(*shape): the values stay in C order; the sizes must agree
CanReshape(flat, shape) == Prod(shape) = Len(flat)

RECURSIVE SumTo(_, _)
SumTo(f, n) == IF n = 0 THEN 0 ELSE f[n] + SumTo(f, n - 1)

(***************************************************************************)
(* Collaborators of evaluate: the cartesian helper, numpy's linspace,      *)
(* scipy's convolve, the binning routine and the kernel.                   *)
(***************************************************************************)
\* cartesian(arrays): all combinations, one per row, last axis fastest
RECURSIVE cartesian(_)
cartesian(arrays) ==
  IF Len(arrays) = 0 THEN << << >> >>
  ELSE LET a == Head(arrays)
           rest == cartesian(Tail(arrays))
           n == Len(rest)
       IN [r \in 1..(Len(a) * n) |->
             <<a[((r - 1) \div n) + 1]>> \o rest[((r - 1) % n) + 1]]

\* np.linspace(start, stop, num) for num >= 1: start + i * step with
\* step = (stop - start) / (num - 1)
linspace(start, stop, num) ==
  IF num = 1 THEN <<start>>
  ELSE [i \in 1..num |-> start + ((i - 1) * (stop - start)) \div (num - 1)]

\* The full discrete convolution of in1 and in2 at index tuple t
FullAt(in1, in2, t) ==
  LET n == Len(in1.flat)
      term == [q \in 1..n |->
                 LET j == Unravel(q - 1, in1.shape)
                     o == [k \in 1..Len(t) |-> t[k] - j[k]]
                 IN IF InRange(o, in2.shape) THEN in1.flat[q] * At(in2, o) ELSE 0]
  IN SumTo(term, n)

\* The cross-correlation of in1 and in2 (in2 not reversed) at index tuple t
CorrAt(in1, in2, t) ==
  LET n == Len(in1.flat)
      term == [q \in 1..n |->
                 LET j == Unravel(q - 1, in1.shape)
                     o == [k \in 1..Len(t) |-> (in2.shape[k] - 1) - (t[k] - j[k])]
                 IN IF InRange(o, in2.shape) THEN in1.flat[q] * At(in2, o) ELSE 0]
  IN SumTo(term, n)

\* mode='same' as numpy.convolve has it: the size of the larger input
ConvolveSameLarger(in1, in2) ==
  LET big == [k \in 1..Len(in1.shape) |->
                IF in1.shape[k] >= in2.shape[k] THEN in1.shape[k] ELSE in2.shape[k]]
      small == [k \in 1..Len(in1.shape) |->
                IF in1.shape[k] >= in2.shape[k] THEN in2.shape[k] ELSE in1.shape[k]]
      start == [k \in 1..Len(in1.shape) |-> (small[k] - 1) \div 2]
  IN [shape |-> big,
      flat |-> [r \in 1..Prod(big) |->
                  LET i == Unravel(r - 1, big)
                  IN FullAt(in1, in2, [k \in 1..Len(i) |-> i[k] + start[k]])]]

ConvolveAsCorrelate(in1, in2) ==
  LET start == [k \in 1..Len(in1.shape) |-> (in2.shape[k] - 1) \div 2]
  IN [shape |-> in1.shape,
      flat |-> [r \in 1..Prod(in1.shape) |->
                  LET i == Unravel(r - 1, in1.shape)
                  IN CorrAt(in1, in2, [k \in 1..Len(i) |-> i[k] + start[k]])]]

\* scipy.signal.convolve(in1, in2, mode='same'): the full convolution cut to
\* the shape of in1, centred: it starts at (full - in1.shape) // 2
convolve(in1, in2) ==
  LET start == [k \in 1..Len(in1.shape) |->
                  ((in1.shape[k] + in2.shape[k] - 1) - in1.shape[k]) \div 2]
  IN [shape |-> in1.shape,
      flat |-> [r \in 1..Prod(in1.shape) |->
                  LET i == Unravel(r - 1, in1.shape)
                  IN FullAt(in1, in2, [k \in 1..Len(i) |-> i[k] + start[k]])]]

\* Per-column views of a grid matrix (one row per grid point)
Column(rows, i) == {rows[r][i] : r \in 1..Len(rows)}
SetMin(S) == CHOOSE x \in S : \A y \in S : x <= y
SetMax(S) == CHOOSE x \in S : \A y \in S : x >= y

Clip(x, lo, hi) == IF x < lo THEN lo ELSE IF x > hi THEN hi ELSE x

\* linear_binning(data, grid_points, weights): one mass per grid row, in the
\* order of the rows.  Every sample's weight goes to its nearest node, mass
\* outside the grid to the nearest boundary node.
linear_binning(data, grid_points, weights) ==
  LET d == Len(grid_points[1])
      lo == [k \in 1..d |-> SetMin(Column(grid_points, k))]
      m == [k \in 1..d |-> Cardinality(Column(grid_points, k))]
      dx == [k \in 1..d |-> (SetMax(Column(grid_points, k)) - lo[k]) \div (m[k] - 1)]
      node(p) == [k \in 1..d |->
                    Clip((2 * (p[k] - lo[k]) + dx[k]) \div (2 * dx[k]), 0, m[k] - 1)]
      at(r) == [s \in 1..Len(data) |->
                  IF Ravel(node(data[s]), m) + 1 = r THEN weights[s] ELSE 0]
  IN [r \in 1..Len(grid_points) |-> SumTo(at(r), Len(data))]

\* self.kernel(x, bw, norm): the weight at offset x.  Deliberately not
\* symmetric in x and different on each axis, so that a reversed, shifted or
\* transposed footprint changes the result; an infinite bandwidth gives 0.
KernelAt(kernel, x, bw, norm) ==
  IF bw.k # "fin" THEN 0
  ELSE LET lin == [k \in 1..Len(x) |-> (2 * k - 1) * x[k]]
       IN kernel.peak + norm + 5 * bw.v + SumTo(lin, Len(x))

\* self.kernel.practical_support(bw) of a kernel without finite support: the
\* radius beyond which the kernel is negligible.  It is defined for a finite
\* positive bandwidth; for any other the call raises.
practical_support(kernel, bw) ==
  IF bw.k = "fin" /\ bw.v > 0 THEN Fin(2 * bw.v + 1) ELSE Raises

(***************************************************************************)
(* Grids.  A grid is the matrix of its points, one per row.                *)
(***************************************************************************)
RECURSIVE SortedSeq(_)
SortedSeq(S) ==
  IF S = {} THEN << >> ELSE <<SetMin(S)>> \o SortedSeq(S \ {SetMin(S)})

Equidistant(axis) ==
  /\ Len(axis) >= 2
  /\ \A i \in 2..Len(axis) : axis[i] - axis[i - 1] = axis[2] - axis[1]
  /\ axis[2] > axis[1]

\* The verification of super().evaluate(grid_points): the rows are the
\* cartesian product of one equidistant axis per dimension of the data
ValidGrid(rows, data) ==
  /\ Len(rows) > 0
  /\ Len(rows[1]) = Len(data[1])
  /\ LET axes == [k \in 1..Len(rows[1]) |-> SortedSeq(Column(rows, k))]
     IN /\ \A k \in 1..Len(axes) : Equidistant(axes[k])
        /\ rows = cartesian(axes)

\* The grid with shape[k] points on axis k, spacing dxs[k], starting at -k
MakeGrid(shape, dxs) ==
  cartesian([k \in 1..Len(shape) |->
               [i \in 1..shape[k] |-> (i - 1) * dxs[k] - k]])

Grids1 == {MakeGrid(<<m>>, <<s>>) : m \in 2..MaxM, s \in Spacings}
Grids2 ==
  {MakeGrid(<<m[1], m[2]>>, s) : m \in (2..MaxM) \X (2..MaxM), s \in Spacings2}
\* Explicit grids that are not equidistant
BadGrids == {<< <<0>>, <<1>>, <<3>>, <<4>> >>,
             << <<0, 0>>, <<0, 1>>, <<1, 0>>, <<3, 1>> >>}
GridArgs == Grids1 \cup Grids2 \cup BadGrids
\* The grids of the fit/evaluate sequences: one-dimensional
SeqGrids ==
  {MakeGrid(<<m>>, <<1>>) : m \in 2..MaxM}
    \cup {MakeGrid(<<2>>, <<3>>), << <<0>>, <<1>>, <<3>>, <<4>> >>}

(***************************************************************************)
(* The instance and the local variables of one evaluate call.              *)
(***************************************************************************)
Epa == [name |-> "epa", finite_support |-> TRUE, support |-> 2, peak |-> 1]
Gaussian == [name |-> "gaussian", finite_support |-> FALSE, support |-> 0, peak |-> 2]
Kernels == {Epa, Gaussian}

Samples1 ==
  {[data |-> << <<0>>, <<2>> >>, weights |-> <<1, 1>>],
   [data |-> << <<-1>>, <<1>>, <<1>> >>, weights |-> <<2, 1, 3>>]}
Samples == Samples1 \cup {[data |-> << <<0, -1>>, <<1, 0>> >>, weights |-> <<1, 2>>]}

NewInstance(kernel, bw, sample) ==
  [data |-> sample.data, weights |-> sample.weights, kernel |-> kernel,
   norm |-> 2, bw |-> bw, grid_points |-> << >>]

\* What a call finds on the instance when it starts
Snapshot(kde) ==
  [data |-> kde.data, weights |-> kde.weights, kernel |-> kde.kernel,
   norm |-> kde.norm, bw |-> kde.bw]

IdleFrame(kde) ==
  [pc |-> "idle", g |-> << >>, ruleRet |-> Unset, bw |-> Unset,
   data |-> EmptyArray, num_grid_points |-> << >>, num_intervals |-> << >>,
   dx |-> << >>, real_bw |-> Unset, L |-> << >>, grids |-> << >>,
   kernel_weights |-> EmptyArray,
   evaluated |-> << >>, returned |-> FALSE, err |-> "", trace |-> << >>,
   called_rule |-> FALSE, bw_extent |-> Unset, bw_kernel |-> Unset,
   grid_bin |-> << >>, grid_shape |-> << >>, grid_replaced |-> FALSE,
   pre |-> Snapshot(kde)]

\* The entry of evaluate(grid_points) on instance kde; ruleRet is what the
\* bandwidth rule returns if this call invokes it (kept only while the
\* instance holds a rule)
StartFrame(kde, g, ruleRet) ==
  [IdleFrame(kde) EXCEPT !.pc = "validate", !.g = g,
                         !.ruleRet = IF IsCallable(kde.bw) THEN ruleRet ELSE Unset]

Raise(fr, step, name) ==
  [fr EXCEPT !.pc = "error", !.err = name, !.trace = Append(@, step)]

Goto(fr, step, next) == [fr EXCEPT !.pc = next, !.trace = Append(@, step)]

Finished(fr) == fr.pc \in {"done", "error"}

(***************************************************************************)
(* The statements of evaluate, in the order of the source.  Each takes the *)
(* instance and the call's locals and gives both back.                     *)
(***************************************************************************)
\* line 129: super().evaluate(grid_points) sets self.grid_points and
\* verifies it
StepValidate(kde, fr) ==
  IF ValidGrid(fr.g, kde.data)
  THEN [kde |-> [kde EXCEPT !.grid_points = fr.g],
        fr |-> Goto([fr EXCEPT !.grid_replaced = (kde.grid_points # fr.g)],
                    "validate", "resolve")]
  ELSE [kde |-> kde, fr |-> Raise(fr, "validate", "InvalidGridError")]

\* lines 131-136; an exception of the rule leaves evaluate at line 132
StepResolve(kde, fr) ==
  IF IsCallable(kde.bw)
  THEN [kde |-> kde,
        fr |-> IF fr.ruleRet = Raises
               THEN Raise([fr EXCEPT !.called_rule = TRUE], "resolve", "RuleError")
               ELSE Goto([fr EXCEPT !.bw = fr.ruleRet, !.called_rule = TRUE],
                         "resolve", "store_bw")]
  ELSE IF IsPositiveNumber(kde.bw)
  THEN [kde |-> kde, fr |-> Goto([fr EXCEPT !.bw = kde.bw], "resolve", "store_bw")]
  ELSE [kde |-> kde, fr |-> Raise(fr, "resolve", "ValueError")]

StoreNothing(kde, fr) == [kde |-> kde, fr |-> Goto(fr, "store_bw", "bin")]

\* line 137: self.bw = bw
StepStoreBw(kde, fr) ==
  [kde |-> [kde EXCEPT !.bw = fr.bw], fr |-> Goto(fr, "store_bw", "bin")]

BinIntoSelfData(kde, fr) ==
  LET mass == linear_binning(kde.data, kde.grid_points, kde.weights)
  IN [kde |-> [kde EXCEPT !.data = [r \in 1..Len(mass) |-> <<mass[r]>>]],
      fr |-> Goto([fr EXCEPT !.data = [shape |-> <<Len(mass)>>, flat |-> mass],
                             !.grid_bin = kde.grid_points],
                  "bin", "shape")]

\* lines 140-141: data = linear_binning(self.data, self.grid_points, self.weights)
StepBin(kde, fr) ==
  LET mass == linear_binning(kde.data, kde.grid_points, kde.weights)
  IN [kde |-> kde,
      fr |-> Goto([fr EXCEPT !.data = [shape |-> <<Len(mass)>>, flat |-> mass],
                             !.grid_bin = kde.grid_points],
                  "bin", "shape")]

\* lines 144-151: the shape and the spacing of self.grid_points
StepShape(kde, fr) ==
  LET gp == kde.grid_points
      g_shape == Len(gp[1])
      num_grid_points == [i \in 1..g_shape |-> Cardinality(Column(gp, i))]
      min_grid == [i \in 1..g_shape |-> SetMin(Column(gp, i))]
      max_grid == [i \in 1..g_shape |-> SetMax(Column(gp, i))]
      num_intervals == [i \in 1..g_shape |-> num_grid_points[i] - 1]
      dx == [i \in 1..g_shape |-> (max_grid[i] - min_grid[i]) \div num_intervals[i]]
  IN [kde |-> kde,
      fr |-> Goto([fr EXCEPT !.num_grid_points = num_grid_points,
                             !.num_intervals = num_intervals,
                             !.dx = dx, !.grid_shape = gp],
                  "shape", "extent")]

\* lines 154-157: the support times the bandwidth, or the practical support
RealBw(kernel, bw) ==
  IF kernel.finite_support THEN MulE(kernel.support, bw)
  ELSE practical_support(kernel, bw)

StepExtent(kde, fr) ==
  LET real_bw == RealBw(kde.kernel, kde.bw)
      fr2 == [fr EXCEPT !.real_bw = real_bw, !.bw_extent = kde.bw]
  IN [kde |-> kde,
      fr |-> IF real_bw = Raises THEN Raise(fr2, "extent", "ValueError")
             ELSE Goto(fr2, "extent", "footprint")]

FootprintNoClamp(real_bw, dx, num_intervals) ==
  [i \in 1..Len(dx) |-> FloorDivE(real_bw, dx[i])]

\* line 160: L = np.minimum(np.floor(real_bw / dx), num_intervals)
Footprint(real_bw, dx, num_intervals) ==
  [i \in 1..Len(dx) |-> MinimumE(FloorDivE(real_bw, dx[i]), num_intervals[i])]

\* line 161: (dx * L < real_bw).all()
FootprintCheck(dx, L, real_bw) ==
  \A i \in 1..Len(dx) : LessE(MulE(dx[i], L[i]), real_bw)

\* lines 160-161
StepFootprint(kde, fr) ==
  LET L == Footprint(fr.real_bw, fr.dx, fr.num_intervals)
  IN [kde |-> kde,
      fr |-> IF FootprintCheck(fr.dx, L, fr.real_bw)
             THEN Goto([fr EXCEPT !.L = L], "footprint", "kernel")
             ELSE Raise([fr EXCEPT !.L = L], "footprint", "AssertionError")]

\* lines 164-167: the footprint axes, their cartesian product and the kernel
\* on it.  int() of a NaN and linspace of a negative count raise ValueError.
StepKernel(kde, fr) ==
  IF \E i \in 1..Len(fr.L) : fr.L[i].k # "fin" \/ 2 * fr.L[i].v + 1 < 0
  THEN [kde |-> kde, fr |-> Raise(fr, "kernel", "ValueError")]
  ELSE LET grids == [i \in 1..Len(fr.L) |->
                       linspace(-(fr.dx[i] * fr.L[i].v), fr.dx[i] * fr.L[i].v,
                                2 * fr.L[i].v + 1)]
           kernel_grid == cartesian(grids)
           w == [r \in 1..Len(kernel_grid) |->
                   KernelAt(kde.kernel, kernel_grid[r], kde.bw, kde.norm)]
       IN [kde |-> kde,
           fr |-> Goto([fr EXCEPT !.grids = grids,
                                  !.kernel_weights = [shape |-> <<Len(w)>>, flat |-> w],
                                  !.bw_kernel = kde.bw],
                       "kernel", "reshape")]

\* lines 170-171: both arrays take their grid shapes
StepReshape(kde, fr) ==
  LET kshape == [i \in 1..Len(fr.L) |-> 2 * fr.L[i].v + 1]
  IN IF CanReshape(fr.kernel_weights.flat, kshape)
        /\ CanReshape(fr.data.flat, fr.num_grid_points)
     THEN [kde |-> kde,
           fr |-> Goto([fr EXCEPT !.kernel_weights.shape = kshape,
                                  !.data.shape = fr.num_grid_points],
                       "reshape", "convolve")]
     ELSE [kde |-> kde, fr |-> Raise(fr, "reshape", "ValueError")]

\* lines 174-175: the convolution, flattened to one value per grid point
StepConvolve(kde, fr) ==
  [kde |-> kde,
   fr |-> Goto([fr EXCEPT !.evaluated = convolve(fr.data, fr.kernel_weights).flat,
                          !.returned = TRUE],
               "convolve", "done")]

StepResolveFirst(kde, fr) ==
  CASE fr.pc = "validate" /\ fr.trace = << >> ->
         LET s == StepResolve(kde, fr)
         IN IF s.fr.pc = "error" THEN s
            ELSE [kde |-> s.kde, fr |-> [s.fr EXCEPT !.pc = "validate"]]
    [] fr.pc = "validate" ->
         LET s == StepValidate(kde, fr)
         IN IF s.fr.pc = "error" THEN s
            ELSE [kde |-> s.kde, fr |-> [s.fr EXCEPT !.pc = "store_bw"]]
    [] fr.pc = "store_bw" -> StepStoreBw(kde, fr)
    [] fr.pc = "bin" -> StepBin(kde, fr)
    [] fr.pc = "shape" -> StepShape(kde, fr)
    [] fr.pc = "extent" -> StepExtent(kde, fr)
    [] fr.pc = "footprint" -> StepFootprint(kde, fr)
    [] fr.pc = "kernel" -> StepKernel(kde, fr)
    [] fr.pc = "reshape" -> StepReshape(kde, fr)
    [] fr.pc = "convolve" -> StepConvolve(kde, fr)

\* One statement of FFTKDE.evaluate
Step(kde, fr) ==
  CASE fr.pc = "validate" -> StepValidate(kde, fr)
    [] fr.pc = "resolve" -> StepResolve(kde, fr)
    [] fr.pc = "store_bw" -> StepStoreBw(kde, fr)
    [] fr.pc = "bin" -> StepBin(kde, fr)
    [] fr.pc = "shape" -> StepShape(kde, fr)
    [] fr.pc = "extent" -> StepExtent(kde, fr)
    [] fr.pc = "footprint" -> StepFootprint(kde, fr)
    [] fr.pc = "kernel" -> StepKernel(kde, fr)
    [] fr.pc = "reshape" -> StepReshape(kde, fr)
    [] fr.pc = "convolve" -> StepConvolve(kde, fr)

\* A whole call of evaluate: the statements in order until it returns or raises
RECURSIVE Run(_, _)
Run(kde, fr) ==
  IF Finished(fr) THEN [kde |-> kde, fr |-> fr]
  ELSE LET s == Step(kde, fr) IN Run(s.kde, s.fr)

(***************************************************************************)
(* The state machine.  inst[i] is instance i, frame[t] the locals of       *)
(* thread t's call of evaluate; thread t works on instance InstOf(t).      *)
(* rule_calls counts the invocations of each instance's bandwidth rule,    *)
(* rule_rets those that returned; rule_first is the first value returned   *)
(* and rule_data the data it was computed from; op is the last operation.  *)
(***************************************************************************)
AlwaysFirstInstance(t) == 1

\* The instance a thread's calls are made on
InstOf(t) == IF shared THEN 1 ELSE t

\* The record of a rule invocation made by the statement that led to fr2
NoteRule(i, fr1, fr2, kde) ==
  IF fr2.called_rule /\ ~fr1.called_rule
  THEN /\ rule_calls' = [rule_calls EXCEPT ![i] =
                           IF @ < MaxRuleCalls THEN @ + 1 ELSE @]
       /\ IF fr2.ruleRet = Raises
          THEN UNCHANGED <<rule_rets, rule_first, rule_data>>
          ELSE /\ rule_rets' = [rule_rets EXCEPT ![i] =
                                  IF @ < MaxRuleCalls THEN @ + 1 ELSE @]
               /\ rule_first' = [rule_first EXCEPT ![i] =
                                   IF rule_rets[i] = 0 THEN fr2.ruleRet ELSE @]
               /\ rule_data' = [rule_data EXCEPT ![i] =
                                  IF rule_rets[i] = 0 THEN kde.data ELSE @]
  ELSE UNCHANGED <<rule_calls, rule_rets, rule_first, rule_data>>

\* A constructed and fitted instance, no call made yet
Fresh(samples) ==
  /\ \E kernel \in Kernels, bw \in BwSpecs, sample \in samples :
       inst = [i \in Insts |-> NewInstance(kernel, bw, sample)]
  /\ frame = [t \in Threads |-> IdleFrame(inst[1])]
  /\ shared = TRUE
  /\ op = "init"
  /\ rule_calls = [i \in Insts |-> 0]
  /\ rule_rets = [i \in Insts |-> 0]
  /\ rule_first = [i \in Insts |-> Unset]
  /\ rule_data = [i \in Insts |-> << >>]

Init == Fresh(Samples1)

\* The values a call may get from the rule: none while the instance holds
\* a literal
RuleRets(kde, rets) == IF IsCallable(kde.bw) THEN rets ELSE {Unset}

\* lines 72-100: fit stores the data and the weights
Fit(sample) ==
  /\ inst' = [inst EXCEPT ![1].data = sample.data, ![1].weights = sample.weights]
  /\ frame' = [frame EXCEPT ![1] = IdleFrame(inst'[1])]
  /\ op' = "fit"
  /\ UNCHANGED <<shared, rule_calls, rule_rets, rule_first, rule_data>>

\* lines 102-175: one call of evaluate, run to its end
Evaluate(g, ruleRet) ==
  LET fr0 == StartFrame(inst[1], g, ruleRet)
      s == Run(inst[1], fr0)
  IN /\ Len(g[1]) = Len(inst[1].data[1])
     /\ inst' = [inst EXCEPT ![1] = s.kde]
     /\ frame' = [frame EXCEPT ![1] = s.fr]
     /\ NoteRule(1, fr0, s.fr, inst[1])
     /\ op' = "evaluate"
     /\ UNCHANGED shared

Next ==
  \/ \E sample \in Samples1 : Fit(sample)
  \/ \E g \in SeqGrids, ruleRet \in RuleRets(inst[1], RuleOutcomes) : Evaluate(g, ruleRet)

Spec == Init /\ [][Next]_vars

(***************************************************************************)
(* evaluate as a function of the fitted instance and the grid: one call on *)
(* every instance, data and grid of one and two dimensions.                *)
(***************************************************************************)
EvalInit == Fresh(Samples)

EvaluateOnce(g, ruleRet) == frame[1].pc = "idle" /\ Evaluate(g, ruleRet)

EvalNext ==
  \E g \in GridArgs, ruleRet \in RuleRets(inst[1], RuleOutcomes) : EvaluateOnce(g, ruleRet)

EvalSpec == EvalInit /\ [][EvalNext]_vars

(***************************************************************************)
(* Two calls of evaluate interleaved statement by statement, on one shared *)
(* instance or on an instance each.                                        *)
(***************************************************************************)
ConcGrids == {MakeGrid(<<2>>, <<1>>), MakeGrid(<<2>>, <<3>>), MakeGrid(<<3>>, <<1>>)}
ConcRuleRets == {Fin(1), Fin(2)}

ConcInit ==
  /\ \E bw \in {Rule, Fin(1)} :
       inst = [i \in Insts |->
                 NewInstance(Epa, bw, [data |-> << <<0>>, <<2>> >>, weights |-> <<1, 1>>])]
  /\ frame = [t \in Threads |-> IdleFrame(inst[1])]
  /\ shared \in BOOLEAN
  /\ op = "init"
  /\ rule_calls = [i \in Insts |-> 0]
  /\ rule_rets = [i \in Insts |-> 0]
  /\ rule_first = [i \in Insts |-> Unset]
  /\ rule_data = [i \in Insts |-> << >>]

\* Thread t enters evaluate(g)
Call(t, g, ruleRet) ==
  /\ frame[t].pc = "idle"
  /\ frame' = [frame EXCEPT ![t] = StartFrame(inst[InstOf(t)], g, ruleRet)]
  /\ op' = "call"
  /\ UNCHANGED <<inst, shared, rule_calls, rule_rets, rule_first, rule_data>>

\* Thread t executes the next statement of its call
ThreadStep(t) ==
  /\ frame[t].pc # "idle"
  /\ ~Finished(frame[t])
  /\ LET i == InstOf(t)
         s == Step(inst[i], frame[t])
     IN /\ inst' = [inst EXCEPT ![i] = s.kde]
        /\ frame' = [frame EXCEPT ![t] = s.fr]
        /\ NoteRule(i, frame[t], s.fr, inst[i])
  /\ op' = "step"
  /\ UNCHANGED shared

ConcNext ==
  \/ \E t \in Threads, g \in ConcGrids :
       \E ruleRet \in RuleRets(inst[InstOf(t)], ConcRuleRets) : Call(t, g, ruleRet)
  \/ \E t \in Threads : ThreadStep(t)

ConcSpec == ConcInit /\ [][ConcNext]_vars

(***************************************************************************)
(* Properties.  F is the call of thread 1, K the instance it is made on.   *)
(***************************************************************************)
F == frame[1]
K == inst[1]

Did(fr, step) == \E n \in 1..Len(fr.trace) : fr.trace[n] = step

Order ==
  <<"validate", "resolve", "store_bw", "bin", "shape", "extent", "footprint",
    "kernel", "reshape", "convolve">>

IsPrefix(s, t) == Len(s) <= Len(t) /\ \A n \in 1..Len(s) : s[n] = t[n]

\* The grid's own geometry, read off the rows of the grid argument
Axes(g) == [k \in 1..Len(g[1]) |-> SortedSeq(Column(g, k))]
GridShape(g) == [k \in 1..Len(g[1]) |-> Len(Axes(g)[k])]
GridDx(g) == [k \in 1..Len(g[1]) |-> Axes(g)[k][2] - Axes(g)[k][1]]

\* C1: every evaluate call that returns yields exactly one density value per
\* grid point, n = m_1 * ... * m_d of them, whatever the footprint L_i in
\* 0..m_i-1, also when the footprint length 2*L_i+1 exceeds m_i.
C1_DensityLength ==
  F.returned =>
    /\ Len(F.evaluated) = Len(F.g)
    /\ Len(F.evaluated) = Prod(GridShape(F.g))
    /\ \A i \in 1..Len(F.L) :
         F.L[i].k = "fin" /\ 0 <= F.L[i].v /\ F.L[i].v <= GridShape(F.g)[i] - 1

\* A returned density on a two-dimensional grid with footprint 0 on one axis
\* and a footprint longer than the grid on the other
C1_Witness ==
  /\ F.returned
  /\ Len(F.L) = 2
  /\ \E i \in 1..2 : F.L[i].v = 0
  /\ \E i \in 1..2 : 2 * F.L[i].v + 1 > GridShape(F.g)[i]

\* The centred convolution at grid row r, written on the rows themselves:
\* the mass of every row q within the footprint of row r, weighted by the
\* kernel at the offset from q to r
Centred(fr, kde, r) ==
  LET g == fr.g
      mass == linear_binning(kde.data, g, kde.weights)
      d == Len(g[1])
      term == [q \in 1..Len(g) |->
                 LET off == [k \in 1..d |-> g[r][k] - g[q][k]]
                 IN IF \A k \in 1..d :
                         /\ off[k] <= fr.L[k].v * GridDx(g)[k]
                         /\ -off[k] <= fr.L[k].v * GridDx(g)[k]
                    THEN mass[q] * KernelAt(kde.kernel, off, kde.bw, kde.norm)
                    ELSE 0]
  IN SumTo(term, Len(g))

\* C2: the value returned at flattened position r is the centred convolution
\* at the grid point of row r: the sum over the grid points j within the
\* footprint of mass[j] * w[i - j], with no shift, reversal or transposition,
\* in one and in two dimensions.
C2_CentredConvolution ==
  F.returned => \A r \in 1..Len(F.g) : F.evaluated[r] = Centred(F, K, r)

\* A returned two-dimensional density with a footprint on both axes, a finite
\* bandwidth and mass on more than one grid point
C2_Witness ==
  /\ F.returned
  /\ Len(F.L) = 2
  /\ \A i \in 1..2 : F.L[i].v >= 1
  /\ K.bw.k = "fin"
  /\ \E r, q \in 1..Len(F.g) : r # q /\ F.data.flat[r] > 0 /\ F.data.flat[q] > 0

\* The real extent exceeds half the grid's extent on every axis
ExceedsHalfExtent(fr) ==
  /\ Did(fr, "extent")
  /\ \A i \in 1..Len(fr.dx) :
       LessE(Fin(fr.dx[i] * fr.num_intervals[i]), MulE(2, fr.real_bw))

\* The real extent is k * dx_i for some axis i and some k in 0..m_i-1
ExactMultipleWithinGrid(fr) ==
  /\ fr.real_bw.k = "fin"
  /\ \E i \in 1..Len(fr.dx) :
       \E k \in 0..fr.num_intervals[i] : fr.real_bw.v = k * fr.dx[i]

\* C3 as stated: a real extent beyond the grid's half-extent makes evaluate
\* raise the footprint error.
C3_AsStated ==
  (Finished(F) /\ ExceedsHalfExtent(F)) => (F.err = "AssertionError" /\ ~F.returned)

\* C3 as amended: with a real extent beyond the grid's half-extent, evaluate
\* raises the footprint error exactly when the real extent is an exact
\* multiple k * dx_i with k <= m_i - 1 on some axis; otherwise the footprint
\* is min(floor(real_extent / dx_i), m_i - 1) and a density is returned.
C3_ClampedNotRejected ==
  (Finished(F) /\ ExceedsHalfExtent(F)) =>
    /\ (F.err = "AssertionError") <=> ExactMultipleWithinGrid(F)
    /\ ~ExactMultipleWithinGrid(F) =>
         /\ F.returned
         /\ \A i \in 1..Len(F.L) :
              F.L[i] = MinimumE(FloorDivE(F.real_bw, F.dx[i]), F.num_intervals[i])

\* A density returned although the real extent is larger than the whole grid
\* on some axis, where the footprint was clamped
C3_Witness ==
  /\ F.returned
  /\ ExceedsHalfExtent(F)
  /\ F.real_bw.k = "fin"
  /\ \E i \in 1..Len(F.L) :
       /\ F.real_bw.v > F.dx[i] * F.num_intervals[i]
       /\ F.real_bw.v \div F.dx[i] > F.L[i].v

\* A bandwidth evaluate must refuse: not a finite positive number
BadNumber(b) == ~(b.k = "fin" /\ b.v > 0)

\* The call found a bad literal (or an object that is neither a rule nor a
\* number) on the instance, or its rule returned a bad number
BadBandwidth(fr) ==
  IF IsCallable(fr.pre.bw) THEN fr.ruleRet # Raises /\ BadNumber(fr.ruleRet)
  ELSE BadNumber(fr.pre.bw)

\* C4: bandwidth resolution fails with an error, and no density is produced,
\* whenever the literal is non-finite or non-positive, whenever the value a
\* rule returns is, and whenever the bandwidth is neither a rule nor a number.
C4_BadBandwidthRejected ==
  (op = "evaluate" /\ Did(F, "resolve") /\ BadBandwidth(F)) =>
    /\ F.err = "ValueError"
    /\ F.trace = <<"validate", "resolve">>
    /\ ~F.returned

\* What the code does hold to: a literal that is zero, negative, NaN or no
\* number at all is refused by the resolution step
C4_BadLiteralRefused ==
  (op = "evaluate" /\ Did(F, "resolve") /\ ~IsCallable(F.pre.bw)
     /\ ~IsPositiveNumber(F.pre.bw)) =>
    (F.err = "ValueError" /\ F.trace = <<"validate", "resolve">> /\ ~F.returned)

\* A density returned for an infinite bandwidth
C4_InfiniteBandwidthAccepted ==
  op = "evaluate" /\ F.returned /\ K.bw = Inf

\* C5 as stated: on an instance constructed with a rule, the rule is invoked
\* at most once, in the first evaluate that passes grid validation; its
\* result replaces the rule on the instance; every later evaluate, on any
\* grid and after any further fit, uses that literal and does not invoke the
\* rule.
C5_AsStated ==
  /\ rule_calls[1] <= 1
  /\ F.called_rule => (Did(F, "validate") /\ F.err # "InvalidGridError")
  /\ (op = "evaluate" /\ IsCallable(K.bw)) => F.err = "InvalidGridError"
  /\ rule_calls[1] = 1 => (~IsCallable(K.bw) /\ K.bw = rule_first[1])

\* C5 as amended: the rule is invoked by every evaluate that passes grid
\* validation while the instance still holds the rule, and by no other; an
\* invocation that raises leaves the rule in place, so the rule can be
\* invoked again; at most one invocation returns, its result replaces the
\* rule on the instance, and every later evaluate, on any grid and after any
\* further fit, uses that literal and does not invoke the rule.
C5_RuleResolvedOnce ==
  /\ rule_rets[1] <= 1
  /\ F.called_rule =>
       (Did(F, "validate") /\ F.err # "InvalidGridError" /\ IsCallable(F.pre.bw))
  /\ (op = "evaluate" /\ IsCallable(F.pre.bw) /\ F.err # "InvalidGridError") =>
       F.called_rule
  /\ (op = "evaluate" /\ IsCallable(K.bw)) =>
       (IsCallable(F.pre.bw) /\ F.err \in {"InvalidGridError", "RuleError"})
  /\ rule_rets[1] = 0 => (IsCallable(K.bw) \/ rule_calls[1] = 0)
  /\ rule_rets[1] = 1 =>
       /\ ~IsCallable(K.bw)
       /\ K.bw = rule_first[1]
       /\ (op = "evaluate" /\ ~F.called_rule) =>
            /\ F.pre.bw = rule_first[1]
            /\ Did(F, "store_bw") => F.bw = rule_first[1]
            /\ Did(F, "extent") => F.bw_extent = rule_first[1]
            /\ Did(F, "kernel") => F.bw_kernel = rule_first[1]

\* A later evaluate, after fit stored other data than the rule saw, returns a
\* density computed with the literal the rule gave the one time it returned
C5_Witness ==
  /\ rule_rets[1] = 1
  /\ op = "evaluate"
  /\ ~F.called_rule
  /\ F.returned
  /\ K.data # rule_data[1]
  /\ F.bw_kernel = rule_first[1]

\* C6: the steps of one evaluate run in the fixed order validation,
\* bandwidth resolution, binning, footprint, kernel evaluation, convolution;
\* a failure at any step ends the call with an error and no density; an
\* invalid grid is rejected before the rule is invoked and before any
\* binning or convolution.
C6_FixedOrder ==
  /\ IsPrefix(F.trace, Order)
  /\ F.returned <=> (F.pc = "done")
  /\ F.pc = "done" => F.trace = Order
  /\ F.pc = "error" => (F.err # "" /\ F.evaluated = << >>)
  /\ (op = "evaluate" /\ ~ValidGrid(F.g, F.pre.data)) => F.err = "InvalidGridError"
  /\ F.err = "InvalidGridError" =>
       /\ F.trace = <<"validate">>
       /\ ~F.called_rule
       /\ F.data = EmptyArray
       /\ F.kernel_weights = EmptyArray

\* A non-equidistant grid rejected on an instance that still holds its rule
C6_Witness ==
  /\ op = "evaluate"
  /\ F.err = "InvalidGridError"
  /\ F.g = << <<0>>, <<1>>, <<3>>, <<4>> >>
  /\ IsCallable(K.bw)

\* C7 as stated: an evaluate call changes nothing on the instance but the
\* bandwidth spec, which its resolved literal replaces: data, weights,
\* kernel, norm and the grid held on the instance are as before the call.
C7_AsStated ==
  op = "evaluate" =>
    /\ K.data = F.pre.data /\ K.weights = F.pre.weights
    /\ K.kernel = F.pre.kernel /\ K.norm = F.pre.norm
    /\ ~F.grid_replaced

\* C7 as amended: an evaluate call changes nothing on the instance but the
\* bandwidth spec, replaced by its resolved literal, and the grid held on
\* the instance, replaced by the call's grid once it passed validation;
\* data, weights, kernel and norm are as before, whether the call succeeds
\* or fails.
C7_OnlyBandwidthAndGrid ==
  op = "evaluate" =>
    /\ K.data = F.pre.data /\ K.weights = F.pre.weights
    /\ K.kernel = F.pre.kernel /\ K.norm = F.pre.norm
    /\ \/ K.bw = F.pre.bw
       \/ IsCallable(F.pre.bw) /\ F.called_rule /\ K.bw = F.ruleRet
    /\ F.grid_replaced => (K.grid_points = F.g /\ Did(F, "resolve"))
    /\ Did(F, "resolve") => K.grid_points = F.g

\* A call that failed at the footprint check after it replaced both the rule
\* and the grid held on the instance
C7_Witness ==
  /\ op = "evaluate"
  /\ F.err = "AssertionError"
  /\ F.grid_replaced
  /\ IsCallable(F.pre.bw) /\ K.bw = F.ruleRet

\* The call of frame fr run alone, on an instance as the call found it
Alone(fr) ==
  LET kde == [data |-> fr.pre.data, weights |-> fr.pre.weights,
              kernel |-> fr.pre.kernel, norm |-> fr.pre.norm, bw |-> fr.pre.bw,
              grid_points |-> << >>]
  IN Run(kde, StartFrame(kde, fr.g, fr.ruleRet)).fr

\* The call read, at one of its steps, a bandwidth or a grid that another
\* call wrote
Mixed(fr) ==
  \/ Did(fr, "bin") /\ fr.grid_bin # fr.g
  \/ Did(fr, "shape") /\ fr.grid_shape # fr.g
  \/ Did(fr, "extent") /\ fr.bw_extent # fr.bw
  \/ Did(fr, "kernel") /\ fr.bw_kernel # fr.bw

\* C8: when every call runs on an instance of its own, in every interleaving
\* each call's outcome depends on its own grid and bandwidth alone: no step
\* reads what another call wrote, and the call ends as it does run alone.
\* (On one shared instance a call does compute its density from the other
\* call's values: C8_Witness.)
C8_SeparateInstancesIsolated ==
  ~shared =>
    \A t \in Threads :
      /\ ~Mixed(frame[t])
      /\ Finished(frame[t]) =>
           /\ frame[t].err = Alone(frame[t]).err
           /\ frame[t].returned = Alone(frame[t]).returned
           /\ frame[t].evaluated = Alone(frame[t]).evaluated

\* On a shared instance: a returned density whose footprint extent and
\* kernel weights were computed with different bandwidths
C8_Witness ==
  /\ shared
  /\ \E t \in Threads :
       /\ frame[t].returned
       /\ frame[t].bw_extent # frame[t].bw_kernel
       /\ frame[t].evaluated # Alone(frame[t]).evaluated

\* On a shared instance: a returned density whose binned mass and grid shape
\* come from different grids
C8_MixedGrids ==
  /\ shared
  /\ \E t \in Threads :
       /\ frame[t].returned
       /\ frame[t].grid_bin # frame[t].grid_shape

\* C9: on every axis the footprint is L_i = min(floor(real_extent / dx_i),
\* m_i - 1), with dx_i = (max_i - min_i) / (m_i - 1) and real_extent the
\* support times the bandwidth (finite support) or the practical support;
\* hence 0 <= L_i <= m_i - 1, and the footprint axis has 2 * L_i + 1 points
\* from -dx_i * L_i to dx_i * L_i, spaced dx_i.
C9_Footprint ==
  Did(F, "footprint") =>
    LET real == IF K.kernel.finite_support THEN MulE(K.kernel.support, K.bw)
                ELSE practical_support(K.kernel, K.bw)
        dx == GridDx(F.g)
        m == GridShape(F.g)
    IN /\ F.real_bw = real
       /\ F.dx = dx
       /\ \A i \in 1..Len(m) :
            /\ F.L[i] = MinimumE(FloorDivE(real, dx[i]), m[i] - 1)
            /\ F.L[i].k = "fin" /\ 0 <= F.L[i].v /\ F.L[i].v <= m[i] - 1
       /\ Did(F, "kernel") =>
            \A i \in 1..Len(m) :
              /\ Len(F.grids[i]) = 2 * F.L[i].v + 1
              /\ \A n \in 1..Len(F.grids[i]) :
                   F.grids[i][n] = dx[i] * (n - 1 - F.L[i].v)

\* The same for the calls whose bandwidth is a finite positive number
C9_FootprintOfPositiveBandwidth ==
  ~BadNumber(K.bw) => C9_Footprint

\* C10: the footprint check dx_i * L_i < real_extent fails exactly when, on
\* some axis, real_extent is an exact multiple k * dx_i with 0 <= k <= m_i-1;
\* clamping never makes it fail; every returned density satisfied the check
\* on every axis.
C10_CheckFailsOnExactMultiples ==
  Did(F, "footprint") =>
    /\ (F.err = "AssertionError") <=> ExactMultipleWithinGrid(F)
    /\ F.returned =>
         \A i \in 1..Len(F.dx) : LessE(MulE(F.dx[i], F.L[i]), F.real_bw)

\* The same for the calls whose bandwidth is a finite positive number
C10_CheckOfPositiveBandwidth ==
  ~BadNumber(K.bw) => C10_CheckFailsOnExactMultiples

\* A valid grid rejected because its spacing divides the real extent
C10_ValidGridRejected ==
  /\ F.err = "AssertionError"
  /\ ~BadNumber(K.bw)
  /\ ExactMultipleWithinGrid(F)
====
